---- MODULE Spec2Model ----
(***************************************************************************)
(* Saturating integer arithmetic of StefanHamminga/saturating.             *)
(*                                                                         *)
(* Two implementations live in the repository and both are modelled:       *)
(*   saturating::type  (types.hpp, on the free functions of functions.hpp) *)
(*   xint_sat_t        (saturating_types.hpp, the self-contained draft)    *)
(*                                                                         *)
(* Data model: LP64 (x86-64 Linux, glibc).  int is 32 bits, operands       *)
(* narrower than int are promoted to int before any native operator, and   *)
(* int_fast16_t, int_fast32_t and int_fast64_t are all 64 bits wide.       *)
(*                                                                         *)
(* Numbers.  A value of a type of at most 16 bits, or of a signed type, is *)
(* the integer itself.  A value of an unsigned type of 32 bits or more is  *)
(* held as its bit pattern read in two's complement: r >= 0 is r, and      *)
(* r < 0 stands for 2^Bits + r (the value an unsigned computation wraps    *)
(* to).  TLC integers are 32 bits wide, so every operand drawn below has   *)
(* magnitude below 2^31, and an input whose exact result would not fit is  *)
(* left out by the guard of the action that draws it.                      *)
(***************************************************************************)
EXTENDS Integers, FiniteSets, Sequences, TLC

VARIABLES obj, value, faulted, steps, last, call

vars == <<obj, value, faulted, steps, last, call>>

(***************************************************************************)
(* Integer types                                                           *)
(***************************************************************************)
IntTypes == {"i8", "u8", "i16", "u16", "i32", "u32", "i64", "u64", "i128", "u128"}

Bits(t) ==
    CASE t \in {"i8", "u8"}     -> 8
      [] t \in {"i16", "u16"}   -> 16
      [] t \in {"i32", "u32"}   -> 32
      [] t \in {"i64", "u64"}   -> 64
      [] t \in {"i128", "u128"} -> 128

IsSigned(t) == t \in {"i8", "i16", "i32", "i64", "i128"}

TypeOf(bits, sgn) == CHOOSE t \in IntTypes : Bits(t) = bits /\ IsSigned(t) = sgn

\* std::numeric_limits<t>::lowest() and ::max(), for t of at most 32 bits.
\* The maximum of the 32-bit unsigned type is the all-ones pattern.
Lowest(t) ==
    IF ~IsSigned(t) THEN 0
    ELSE IF Bits(t) = 32 THEN (-2147483647) - 1 ELSE -(2 ^ (Bits(t) - 1))

Highest(t) ==
    IF Bits(t) = 32 THEN (IF IsSigned(t) THEN 2147483647 ELSE -1)
    ELSE IF IsSigned(t) THEN 2 ^ (Bits(t) - 1) - 1 ELSE 2 ^ Bits(t) - 1

\* r, held as a value of type t, stands for 2^Bits(t) + r.
Big(t, r) == ~IsSigned(t) /\ Bits(t) >= 32 /\ r < 0

\* Comparison of the mathematical values of a (of type ta) and b (of type tb).
MathLess(ta, a, tb, b) ==
    IF Big(ta, a) = Big(tb, b) THEN a < b ELSE Big(tb, b)

\* static_cast<t>(v) for v held in a type at least as wide as t: reduction
\* modulo 2^Bits(t).  With 32 bits the pattern is the value already.
Wrap(t, v) ==
    IF Bits(t) >= 32 THEN v
    ELSE LET m == 2 ^ Bits(t)
             r == v % m
         IN  IF IsSigned(t) /\ r >= m \div 2 THEN r - m ELSE r

\* Integer promotion and the usual arithmetic conversions (LP64).
Promote(t) == IF Bits(t) < 32 THEN "i32" ELSE t

Common(ta, tb) ==
    LET pa == Promote(ta)
        pb == Promote(tb)
    IN  IF pa = pb THEN pa
        ELSE IF IsSigned(pa) = IsSigned(pb)
             THEN (IF Bits(pa) >= Bits(pb) THEN pa ELSE pb)
        ELSE LET u == IF IsSigned(pa) THEN pb ELSE pa
                 s == IF IsSigned(pa) THEN pa ELSE pb
             IN  IF Bits(u) >= Bits(s) THEN u ELSE s

\* The native operator <, on operands converted to their common type.
NativeLess(ta, a, tb, b) ==
    LET c == Common(ta, tb)
    IN  IF IsSigned(c) THEN a < b ELSE MathLess(c, a, c, b)

\* The native integer division of C++: the quotient truncated toward zero.
TruncDiv(a, b) ==
    IF b = Lowest("i32") THEN (IF a = b THEN 1 ELSE 0)
    ELSE LET m == IF b < 0 THEN -b ELSE b
             q == a \div b
         IN  IF (a < 0) # (b < 0) /\ a % m # 0 THEN q + 1 ELSE q

(***************************************************************************)
(* Helpers imported from arithmetic_type_tools (utilities.hpp)             *)
(***************************************************************************)
\* fit_all_t<Ts...>: the smallest integer type holding every value of every
\* type of ts; an unsigned member of n bits needs a signed type of 2n bits
\* as soon as any member is signed.
fit_all_t(ts) ==
    LET need(t) == IF IsSigned(t) THEN Bits(t) ELSE 2 * Bits(t)
        top(f(_)) == CHOOSE n \in {f(t) : t \in ts} : \A t \in ts : f(t) <= n
    IN  IF \A t \in ts : ~IsSigned(t)
        THEN TypeOf(top(Bits), FALSE)
        ELSE TypeOf(top(need), TRUE)

\* <stdint.h> of glibc on x86-64: the width of (u)int_fastN_t.
FastBits(n) == CASE n \in {16, 32, 64} -> 64

\* _next_up<S, B>::type by operand size in bytes and signedness.
next_up(size, sgn) ==
    CASE size = 1 -> TypeOf(FastBits(16), sgn)
      [] size = 2 -> TypeOf(FastBits(32), sgn)
      [] size = 4 -> TypeOf(FastBits(64), sgn)
      [] size = 8 -> TypeOf(128, sgn)

\* next_up_t<Ts...>: by the largest size, signed if any member is signed.
next_up_t(ts) ==
    LET size == CHOOSE n \in {Bits(t) \div 8 : t \in ts} :
                    \A t \in ts : Bits(t) \div 8 <= n
    IN  next_up(size, \E t \in ts : IsSigned(t))

\* minmax(MIN, val, MAX): val (of type tv) clamped between lo and hi (of
\* type t), by value whatever the signedness; the comparison directions are
\* swapped for an inverted range.
minmax(t, lo, tv, v, hi) ==
    IF lo <= hi
    THEN IF MathLess(tv, v, t, lo) THEN lo
         ELSE IF MathLess(t, hi, tv, v) THEN hi ELSE v
    ELSE IF MathLess(tv, v, t, hi) THEN hi
         ELSE IF MathLess(t, lo, tv, v) THEN lo ELSE v

(***************************************************************************)
(* functions.hpp: the free functions, integer operands                     *)
(***************************************************************************)
\* __builtin_add_overflow(a, b, &temp) in type t, a and b values of t.
add_overflow(t, a, b) ==
    \/ b > 0 /\ a > Highest(t) - b
    \/ b < 0 /\ a < Lowest(t) - b

\* if constexpr (MIN == lowest && MAX == max && is_same_v<T, fit_all_t<T, UA, UB>>)
add_fast_path(T, MIN, MAX, UA, UB) ==
    /\ MIN = Lowest(T)
    /\ MAX = Highest(T)
    /\ T = fit_all_t({T, UA, UB})

\* Mutant of add: the saturation direction of the signed fast path swapped.
add_swapped(T, MIN, MAX, UA, a, UB, b) ==
    IF add_fast_path(T, MIN, MAX, UA, UB)
    THEN LET ca == Wrap(T, a)
             cb == Wrap(T, b)
         IN  IF add_overflow(T, ca, cb)
             THEN (IF ~IsSigned(T) \/ cb > ca THEN MIN ELSE MAX)
             ELSE ca + cb
    ELSE LET TO == next_up_t({fit_all_t({UA, UB})})
         IN  Wrap(T, minmax(T, MIN, TO, a + b, MAX))

\* saturating::add<T, MIN, MAX, UA, UB>(a, b)
add(T, MIN, MAX, UA, a, UB, b) ==
    IF add_fast_path(T, MIN, MAX, UA, UB)
    THEN LET ca == Wrap(T, a)
             cb == Wrap(T, b)
         IN  IF ~IsSigned(T)
             THEN (IF add_overflow(T, ca, cb) THEN MAX ELSE ca + cb)
             ELSE (IF add_overflow(T, ca, cb)
                   THEN (IF cb > ca THEN MIN ELSE MAX)
                   ELSE ca + cb)
    ELSE LET TO == next_up_t({fit_all_t({UA, UB})})
         IN  Wrap(T, minmax(T, MIN, TO, a + b, MAX))

\* The slow path of saturating::add on its own:
\*   using TO = next_up_t<fit_all_t<UA, UB>>;
\*   return static_cast<T>(minmax(MIN, static_cast<TO>(a) + static_cast<TO>(b), MAX));
add_slow_path(T, MIN, MAX, UA, a, UB, b) ==
    LET TO == next_up_t({fit_all_t({UA, UB})})
    IN  Wrap(T, minmax(T, MIN, TO, a + b, MAX))

\* Mutant of subtract: the difference narrowed to T without the clamp.
subtract_unclamped(T, MIN, MAX, UA, a, UB, b) == Wrap(T, a - b)

\* saturating::subtract<T, MIN, MAX, UA, UB>(a, b).  In an unsigned TO the
\* difference of a < b wraps: it is held as the negative pattern a - b.
subtract(T, MIN, MAX, UA, a, UB, b) ==
    LET TO == next_up_t({fit_all_t({UA, UB})})
    IN  Wrap(T, minmax(T, MIN, TO, a - b, MAX))

\* Mutant of multiply: the product narrowed to T without the clamp.
multiply_unclamped(T, MIN, MAX, UA, a, UB, b) == Wrap(T, a * b)

\* saturating::multiply<T, MIN, MAX, UA, UB>(a, b)
multiply(T, MIN, MAX, UA, a, UB, b) ==
    LET TO == next_up_t({fit_all_t({UA, UB})})
    IN  Wrap(T, minmax(T, MIN, TO, a * b, MAX))

\* Addition and subtraction of two 32-bit patterns, wrapped to 32 bits.
wrap_add(a, b) ==
    IF b > 0 /\ a > Highest("i32") - b
    THEN (a + Lowest("i32")) + (b + Lowest("i32"))
    ELSE IF b < 0 /\ a < Lowest("i32") - b
    THEN (a - Lowest("i32")) + (b - Lowest("i32"))
    ELSE a + b

wrap_sub(a, b) ==
    IF b < 0 /\ a > Highest("i32") + b
    THEN (a + Lowest("i32")) - (b - Lowest("i32"))
    ELSE IF b > 0 /\ a < Lowest("i32") + b
    THEN (a - Lowest("i32")) - (b + Lowest("i32"))
    ELSE a - b

\* x / y in the 32-bit unsigned type, x and y patterns and y not zero.
udiv(x, y) ==
    LET U == "u32"
        M == Highest("i32")
    IN  CASE ~Big(U, x) /\ ~Big(U, y) -> x \div y
          [] ~Big(U, x) /\ Big(U, y)  -> 0
          [] Big(U, x) /\ Big(U, y)   -> (IF x >= y THEN 1 ELSE 0)
          [] Big(U, x) /\ y = 1       -> x
          [] OTHER ->
               \* (2^31 + P) / y with P = 2^31 + x in 0 .. 2^31 - 1
               LET P  == (M + x) + 1
                   c  == IF (M % y) + 1 = y THEN 1 ELSE 0
                   q1 == (M \div y) + c
                   r1 == IF c = 1 THEN 0 ELSE (M % y) + 1
               IN  q1 + (P \div y) + ((r1 + (P % y)) \div y)

\* The outcomes of a native a / b in the common type C.  Division by zero
\* and INT_MIN / -1 are undefined: the build traps (x86 idiv) or yields a
\* value without trapping (AArch64 sdiv: 0, and INT_MIN).
native_div(C, n, b) ==
    IF b = 0
    THEN {[fault |-> TRUE, val |-> 0], [fault |-> FALSE, val |-> 0]}
    ELSE IF IsSigned(C)
    THEN IF n = Lowest(C) /\ b = -1
         THEN {[fault |-> TRUE, val |-> 0], [fault |-> FALSE, val |-> n]}
         ELSE {[fault |-> FALSE, val |-> TruncDiv(n, b)]}
    ELSE {[fault |-> FALSE, val |-> udiv(n, b)]}

\* The outcomes of the native a + b / a - b in the common type C.  Signed
\* overflow is undefined: the build wraps, or traps (-ftrapv).
native_addsub(C, minus, a, h) ==
    LET over == IF minus
                THEN (h < 0 /\ a > Highest("i32") + h) \/ (h > 0 /\ a < Lowest("i32") + h)
                ELSE add_overflow("i32", a, h)
        w == IF minus THEN wrap_sub(a, h) ELSE wrap_add(a, h)
    IN  IF IsSigned(C) /\ over
        THEN {[fault |-> TRUE, val |-> 0], [fault |-> FALSE, val |-> w]}
        ELSE {[fault |-> FALSE, val |-> w]}

\* saturating::divide<T, MIN, MAX, UA, UB>(a, b), integer operands:
\*   minmax(MIN, ((a < 0) ^ (b < 0)) ? ((a - b/2)/b) : ((a + b/2)/b), MAX)
\* every operator native, in the common type of UA and UB.
divide(T, MIN, MAX, UA, a, UB, b) ==
    LET C     == Common(UA, UB)
        minus == NativeLess(UA, a, "i32", 0) # NativeLess(UB, b, "i32", 0)
        half  == IF IsSigned(Promote(UB)) THEN TruncDiv(b, 2) ELSE udiv(b, 2)
        nums  == native_addsub(C, minus, a, half)
        quots == UNION {IF n.fault THEN {n} ELSE native_div(C, n.val, b) : n \in nums}
    IN  {IF q.fault THEN q
         ELSE [fault |-> FALSE, val |-> Wrap(T, minmax(T, MIN, C, q.val, MAX))] : q \in quots}

(***************************************************************************)
(* types.hpp: saturating::type<T, MIN, MAX>                                *)
(* A wrapper type is the record [T, MIN, MAX]; an instance holds `value`.  *)
(***************************************************************************)
\* type::add / subtract / multiply / divide: the free functions with the
\* wrapper's own T, MIN and MAX.
type_add(W, UA, a, UB, b)      == add(W.T, W.MIN, W.MAX, UA, a, UB, b)
type_subtract(W, UA, a, UB, b) == subtract(W.T, W.MIN, W.MAX, UA, a, UB, b)
type_multiply(W, UA, a, UB, b) == multiply(W.T, W.MIN, W.MAX, UA, a, UB, b)
type_divide(W, UA, a, UB, b)   == divide(W.T, W.MIN, W.MAX, UA, a, UB, b)

\* Mutant of operator+=: the sum stored as the representation type wraps it.
plus_assign_wrapping(W, v, U, x) == Wrap(W.T, wrap_add(v, x))

\* x + y, x - y, x * y, x / y on a wrapper of type W holding v, y of type U:
\*   operator+(const U& other) const { return add(value, other); }  and so on.
operator_plus(W, v, U, x)  == type_add(W, W.T, v, U, x)
operator_minus(W, v, U, x) == type_subtract(W, W.T, v, U, x)
operator_times(W, v, U, x) == type_multiply(W, W.T, v, U, x)
operator_over(W, v, U, x)  == type_divide(W, W.T, v, U, x)

\* x += y, x -= y, x *= y, x /= y: the value that is stored,
\*   operator+=(const U& other) { value = add(value, other); return *this; }
operator_plus_assign(W, v, U, x)  == type_add(W, W.T, v, U, x)
operator_minus_assign(W, v, U, x) == type_subtract(W, W.T, v, U, x)
operator_times_assign(W, v, U, x) == type_multiply(W, W.T, v, U, x)
operator_over_assign(W, v, U, x)  == type_divide(W, W.T, v, U, x)

\* Mutant of construct: the constructor clamping like from().
construct_clamped(W, U, v) == Wrap(W.T, minmax(W.T, W.MIN, U, v, W.MAX))

\* type::type(const value_type& val) : value{val}, called with an argument of
\* type U: the argument is converted to value_type, then stored as it is.
construct(W, U, v) == Wrap(W.T, v)

\* x % y in the 32-bit unsigned type, x and y patterns and y not zero.
urem(x, y) ==
    LET U == "u32"
        M == Highest("i32")
    IN  CASE ~Big(U, x) /\ ~Big(U, y) -> x % y
          [] ~Big(U, x) /\ Big(U, y)  -> x
          [] Big(U, x) /\ Big(U, y)   -> (IF x >= y THEN x - y ELSE x)
          [] Big(U, x) /\ y = 1       -> 0
          [] OTHER ->
               \* (2^31 + P) % y with P = 2^31 + x in 0 .. 2^31 - 1
               LET P  == (M + x) + 1
                   r1 == ((M % y) + 1) % y
                   r2 == P % y
               IN  IF r1 >= y - r2 THEN r1 - (y - r2) ELSE r1 + r2

\* The outcomes of a native n % b in the common type C.  A zero divisor and
\* INT_MIN % -1 are undefined: the build traps (x86 idiv) or yields 0.
native_rem(C, n, b) ==
    IF b = 0
    THEN {[fault |-> TRUE, val |-> 0], [fault |-> FALSE, val |-> 0]}
    ELSE IF IsSigned(C)
    THEN IF n = Lowest(C) /\ b = -1
         THEN {[fault |-> TRUE, val |-> 0], [fault |-> FALSE, val |-> 0]}
         ELSE {[fault |-> FALSE, val |-> n - b * TruncDiv(n, b)]}
    ELSE {[fault |-> FALSE, val |-> urem(n, b)]}

\* Mutant of modulo: the remainder clamped to the bounds like from().
modulo_clamped(W, v, U, m) ==
    LET C == Common(W.T, U)
    IN  {IF r.fault THEN r
         ELSE [fault |-> FALSE, val |-> Wrap(W.T, minmax(W.T, W.MIN, C, r.val, W.MAX))] :
            r \in native_rem(C, v, m)}

\* type::operator%: return value % other;  (operator%=: value %= other;)
\* The native remainder, converted to value_type and stored as it is.
modulo(W, v, U, m) ==
    LET C == Common(W.T, U)
    IN  {IF r.fault THEN r ELSE [fault |-> FALSE, val |-> construct(W, C, r.val)] :
            r \in native_rem(C, v, m)}

\* Floating values.  A floating value is held as a whole number of
\* sixteenths; the values drawn and everything computed from them are
\* multiples of 1/16 of small magnitude, which float holds exactly.
Fx(i) == 16 * i

\* static_cast of a floating value to an integer type: the fraction dropped.
FxTrunc(x) == TruncDiv(x, Fx(1))

\* std::round: to the nearest integer, halves away from zero.
FxRound(x) ==
    IF x >= 0 THEN (x + Fx(1) \div 2) \div Fx(1)
    ELSE -(((-x) + Fx(1) \div 2) \div Fx(1))

\* type::clamp<U>(val), floating U and integral value_type:
\*   static_cast<value_type>(minmax(MIN, round(val), MAX))
clamp_float(W, x) == Wrap(W.T, minmax(W.T, W.MIN, "i32", FxRound(x), W.MAX))

\* Mutant of the floating scale_from: x times MAX, rounded (no affine map).
scale_from_float_symmetric(W, x, R) == FxRound(x * W.MAX)

\* type::scale_from(val, in_min, in_max), floating val and range R:
\*   temp = (val - in_min) * (MAX - MIN) / (in_max - in_min) + MIN;
\*   return static_cast<value_type>(temp + 0.5f);
scale_from_float(W, x, R) ==
    LET temp == ((x - Fx(R.MIN)) * (W.MAX - W.MIN)) \div (R.MAX - R.MIN) + Fx(W.MIN)
    IN  FxTrunc(temp + Fx(1) \div 2)

\* Mutant of scale_from: the value cast to the destination, never scaled.
scale_from_cast(W, S, v) == Wrap(W.T, v)

\* type::scale_from(const type<U, in_min, in_max>& val), integral T and U,
\* with S = [T |-> U, MIN |-> in_min, MAX |-> in_max].  The branch is chosen
\* at compile time from the four bounds; each formula is evaluated in a type
\* of 64 bits and the result narrowed to value_type.
scale_from(W, S, v) ==
    IF W.MIN = S.MIN
    THEN IF W.MAX = S.MAX
         THEN Wrap(W.T, v)
         ELSE Wrap(W.T, TruncDiv((v - W.MIN) * S.MAX, W.MAX) + W.MIN)
    ELSE IF W.MAX - W.MIN = S.MAX - S.MIN
         THEN \* Range shift only
              Wrap(W.T, v + (S.MIN - W.MIN))
         ELSE IF W.MAX = S.MAX
              THEN Wrap(W.T, TruncDiv(v * (W.MAX - W.MIN), W.MAX - S.MIN))
              ELSE Wrap(W.T, TruncDiv((v - S.MIN) * (W.MAX - W.MIN), S.MAX - S.MIN)
                               + W.MIN + 1)

\* Mutant of clamp: a rounding bias of one added to positive results below MAX.
clamp_biased(W, U, v) ==
    LET r == Wrap(W.T, minmax(W.T, W.MIN, U, v, W.MAX))
    IN  IF 0 < r /\ r < W.MAX THEN r + 1 ELSE r

\* type::clamp<U>(val): static_cast<value_type>(minmax(MIN, val, MAX))
clamp(W, U, v) == Wrap(W.T, minmax(W.T, W.MIN, U, v, W.MAX))

\* type::from<U>(val): { clamp(val) }
from(W, U, v) == clamp(W, U, v)

\* operator++ / operator++(int): if (value < MAX - 1) ++value;
increment(W, v) ==
    IF NativeLess(W.T, v, Promote(W.T), W.MAX - 1) THEN Wrap(W.T, v + 1) ELSE v

\* operator-- / operator--(int): if (value > MIN + 1) --value;
decrement(W, v) ==
    IF NativeLess(Promote(W.T), W.MIN + 1, W.T, v) THEN Wrap(W.T, v - 1) ELSE v

(***************************************************************************)
(* saturating_types.hpp: xint_sat_t<T, min, max>                           *)
(***************************************************************************)
\* The source type U of a conversion, with std::numeric_limits<U>: a plain
\* integer type, or a wrapper type (whose limits are its bounds).
PlainSrc(t)   == [t |-> t, lo |-> Lowest(t), hi |-> Highest(t)]
WrapperSrc(W) == [t |-> W.T, lo |-> W.MIN, hi |-> W.MAX]

\* The test of the cast-only branch of xint_sat_t::clamp<U>:
\*   numeric_limits<U>::lowest() >= min && numeric_limits<U>::max() <= max
\* both comparisons native.
xint_cast_only(W, S) ==
    /\ ~NativeLess(S.t, S.lo, W.T, W.MIN)
    /\ ~NativeLess(W.T, W.MAX, S.t, S.hi)

\* The compare-and-clamp branches of xint_sat_t::clamp<U>(val), val of type
\* U: the one for min > max, then the one for min <= max.
xint_compare_clamp(W, U, v) ==
    IF NativeLess(W.T, W.MAX, W.T, W.MIN)
    THEN IF NativeLess(U, v, W.T, W.MAX) THEN W.MAX
         ELSE IF NativeLess(W.T, W.MIN, U, v) THEN W.MIN ELSE Wrap(W.T, v)
    ELSE IF NativeLess(U, v, W.T, W.MIN) THEN W.MIN
         ELSE IF NativeLess(W.T, W.MAX, U, v) THEN W.MAX ELSE Wrap(W.T, v)

\* xint_sat_t::clamp<U>(val), integral U: every comparison is the native one.
xint_clamp(W, S, v) ==
    IF xint_cast_only(W, S) THEN Wrap(W.T, v) ELSE xint_compare_clamp(W, S.t, v)

\* xint_sat_t::xint_sat_t<U>(const U& val) : value{ static_cast<type>(val) }
xint_construct(W, U, v) == Wrap(W.T, v)

\* xint_sat_t::from<U>(val): { clamp(val) }
xint_from(W, S, v) == xint_clamp(W, S, v)

\* xint_sat_t::clamp<U>(val), floating U: half is added to the magnitude,
\* the sum compared with the bounds and then truncated.
xint_clamp_float(W, x) ==
    LET temp == IF x > 0 THEN x + Fx(1) \div 2
                ELSE IF x < 0 THEN x - Fx(1) \div 2 ELSE x
    IN  IF temp < Fx(W.MIN) THEN W.MIN
        ELSE IF temp > Fx(W.MAX) THEN W.MAX ELSE FxTrunc(temp)

\* The default source range of xint_sat_t::scale_from(val, in_min, in_max)
\* with an integral range: in_min = is_signed ? -1 : 0, in_max = 1.
xint_default_range(W) ==
    [T |-> "float", MIN |-> IF IsSigned(W.T) THEN -1 ELSE 0, MAX |-> 1]

\* xint_sat_t::scale_from(val, in_min, in_max), floating val:
\*   temp = (val - in_min) * (max - min) / (in_max - in_min) + min;
\*   return static_cast<type>(temp + 0.5f);
xint_scale_from_float(W, x, R) ==
    LET temp == ((x - Fx(R.MIN)) * (W.MAX - W.MIN)) \div (R.MAX - R.MIN) + Fx(W.MIN)
    IN  FxTrunc(temp + Fx(1) \div 2)

\* xint_sat_t::scale_from(const xint_sat_t<U, in_min, in_max>& val), with
\* S = [T |-> U, MIN |-> in_min, MAX |-> in_max]: the same four formulas, the
\* range shift returning before the last two are tried.
xint_scale_from(W, S, v) ==
    IF W.MIN = S.MIN
    THEN IF W.MAX = S.MAX
         THEN Wrap(W.T, v)
         ELSE Wrap(W.T, TruncDiv((v - W.MIN) * S.MAX, W.MAX) + W.MIN)
    ELSE IF W.MAX - W.MIN = S.MAX - S.MIN
         THEN Wrap(W.T, v + (S.MIN - W.MIN))
         ELSE IF W.MAX = S.MAX
              THEN Wrap(W.T, TruncDiv(v * (W.MAX - W.MIN), W.MAX - S.MIN))
              ELSE Wrap(W.T, TruncDiv((v - S.MIN) * (W.MAX - W.MIN), S.MAX - S.MIN)
                               + W.MIN + 1)

(***************************************************************************)
(* Inputs                                                                  *)
(***************************************************************************)
\* Representation types and operand types explored.
ValueTypes   == {"i8", "u8", "i16", "u16", "i32"}
OperandTypes == {"i8", "u8", "i16", "u16", "i32", "u32"}

Natural(t) == [T |-> t, MIN |-> Lowest(t), MAX |-> Highest(t)]

\* The aliases of types.hpp:260-267 up to 32 bits, and wrappers with bounds
\* of their own (test.cpp:59 and test.cpp:63 among them).
Wrappers ==
    {Natural(t) : t \in ValueTypes} \cup
    { [T |-> "i8",  MIN |-> -10,   MAX |-> 20],
      [T |-> "u8",  MIN |-> 10,    MAX |-> 20],
      [T |-> "i32", MIN |-> -1024, MAX |-> 1023],
      [T |-> "i16", MIN |-> 127,   MAX |-> -128] }

\* Operand values: the ends of the type and values around the 8-bit bounds.
Base == {-129, -100, -7, -1, 0, 1, 2, 3, 7, 25, 100, 101, 120, 129, 256}

Samples(t) ==
    LET lo == Lowest(t)
        hi == IF t = "u32" THEN Highest("i32") ELSE Highest(t)
    IN  {lo, lo + 1, hi - 1, hi} \cup {x \in Base : lo <= x /\ x <= hi}

\* The exact sum, difference and product fit the integers of the checker.
fits_add(a, b) == ~add_overflow("i32", a, b)
fits_sub(a, b) == ~((b < 0 /\ a > Highest("i32") + b) \/ (b > 0 /\ a < Lowest("i32") + b))
fits_mul(a, b) ==
    LET abs(x) == IF x < 0 THEN -x ELSE x
    IN  IF a \in {0, 1} \/ b \in {0, 1} THEN TRUE
        ELSE IF a = Lowest("i32") \/ b = Lowest("i32") THEN FALSE
        ELSE abs(a) <= Highest("i32") \div abs(b)

(***************************************************************************)
(* saturating_types.hpp: the arithmetic of xint_sat_t, integer operands     *)
(***************************************************************************)
\* The variadic max(v1, ..., vn) of saturating_types.hpp, on a sequence:
\*   max(val)                = val
\*   max(val1, val2, vs...)  = (val1 < val2) ? max(val1, vs...) : max(val2, vs...)
RECURSIVE max(_)
max(vs) ==
    IF Len(vs) = 1 THEN vs[1]
    ELSE LET rest == SubSeq(vs, 3, Len(vs))
         IN  IF vs[1] < vs[2] THEN max(<<vs[1]>> \o rest) ELSE max(<<vs[2]>> \o rest)

\* next_up_t<T...> of saturating_types.hpp, on the sequence of the types:
\*   _next_up<max(sizeof(T)...), (is_signed_v<T> || ...)>::type
xint_next_up_t(ts) ==
    next_up(max([i \in 1 .. Len(ts) |-> Bits(ts[i]) \div 8]),
            \E i \in 1 .. Len(ts) : IsSigned(ts[i]))

\* std::common_type_t<A, B>: A itself when both are A, else the type of the
\* usual arithmetic conversions.
common_type(ta, tb) == IF ta = tb THEN ta ELSE Common(ta, tb)

\* The fast-path test of xint_sat_t::add / subtract / multiply:
\*   min == lowest && max == max && is_same_v<type, common_type_t<type, UA, UB>>
xint_fast_path(W, UA, UB) ==
    /\ W.MIN = Lowest(W.T)
    /\ W.MAX = Highest(W.T)
    /\ common_type(common_type(W.T, UA), UB) = W.T

\* The flag of __builtin_add_overflow / sub / mul in type t, a and b values
\* of t.  In the 32-bit unsigned type a negative pattern is 2^31 or more.
builtin_overflow(op, t, a, b) ==
    IF IsSigned(t)
    THEN CASE op = "+" -> add_overflow(t, a, b)
           [] op = "-" -> (b < 0 /\ a > Highest(t) + b) \/ (b > 0 /\ a < Lowest(t) + b)
           [] op = "*" -> IF fits_mul(a, b)
                          THEN a * b < Lowest(t) \/ a * b > Highest(t) ELSE TRUE
    ELSE IF Bits(t) < 32
    THEN CASE op = "+" -> a + b > Highest(t)
           [] op = "-" -> a < b
           [] op = "*" -> a * b > Highest(t)
    ELSE CASE op = "+" -> IF a < 0 /\ b < 0 THEN TRUE
                          ELSE IF a >= 0 /\ b >= 0 THEN FALSE ELSE a + b >= 0
           [] op = "-" -> MathLess(t, a, t, b)
           [] op = "*" -> IF a \in {0, 1} \/ b \in {0, 1} THEN FALSE
                          ELSE IF a < 0 \/ b < 0 THEN TRUE ELSE ~fits_mul(a, b)

\* xint_sat_t::add<UA, UB>(a, b), integer operands.  On the slow path the sum
\* has the 64-bit type next_up_t<UA, UB>, whose limits lie outside the bounds
\* of every representation of at most 32 bits: clamp compares.
xint_add(W, UA, a, UB, b) ==
    IF xint_fast_path(W, UA, UB)
    THEN LET ca == Wrap(W.T, a)
             cb == Wrap(W.T, b)
         IN  IF builtin_overflow("+", W.T, ca, cb)
             THEN (IF NativeLess("i32", 0, UB, b) THEN W.MAX ELSE W.MIN)
             ELSE wrap_add(ca, cb)
    ELSE xint_compare_clamp(W, xint_next_up_t(<<UA, UB>>), a + b)

\* xint_sat_t::subtract<UA, UB>(a, b), integer operands.  In an unsigned
\* next_up_t<UA, UB> the difference of a < b wraps: it is held as the
\* negative pattern a - b.
xint_subtract(W, UA, a, UB, b) ==
    IF xint_fast_path(W, UA, UB)
    THEN LET ca == Wrap(W.T, a)
             cb == Wrap(W.T, b)
         IN  IF builtin_overflow("-", W.T, ca, cb)
             THEN (IF NativeLess(UA, a, UB, b) THEN W.MIN ELSE W.MAX)
             ELSE wrap_sub(ca, cb)
    ELSE xint_compare_clamp(W, xint_next_up_t(<<UA, UB>>), a - b)

\* xint_sat_t::multiply<UA, UB>(a, b), integer operands.
xint_multiply(W, UA, a, UB, b) ==
    IF xint_fast_path(W, UA, UB)
    THEN LET ca == Wrap(W.T, a)
             cb == Wrap(W.T, b)
         IN  IF builtin_overflow("*", W.T, ca, cb)
             THEN (IF NativeLess(UA, a, "i32", 0) = NativeLess(UB, b, "i32", 0)
                   THEN W.MAX ELSE W.MIN)
             ELSE ca * cb
    ELSE xint_compare_clamp(W, xint_next_up_t(<<UA, UB>>), a * b)

\* xint_sat_t::divide<UA, UB>(a, b), integer operands: the native quotient,
\* cast to the representation when sizeof(type) >= sizeof(UA), else clamped.
xint_divide(W, UA, a, UB, b) ==
    LET C == Common(UA, UB)
    IN  {IF q.fault THEN q
         ELSE [fault |-> FALSE,
               val   |-> IF Bits(W.T) >= Bits(UA) THEN Wrap(W.T, q.val)
                         ELSE xint_clamp(W, PlainSrc(C), q.val)] : q \in native_div(C, a, b)}

(***************************************************************************)
(* The general branch of scale_from at full width.  Its terms go beyond 32 *)
(* bits, so they are computed on wide naturals: six limbs of 11 bits, the  *)
(* least significant first.                                                *)
(***************************************************************************)
\* Carries (or borrows) propagated through the limbs xs.
RECURSIVE WNorm(_, _)
WNorm(xs, carry) ==
    IF xs = <<>> THEN <<>>
    ELSE LET t == Head(xs) + carry
         IN  <<t % 2048>> \o WNorm(Tail(xs), t \div 2048)

\* The wide natural of n, 0 <= n < 2^31, and of 2^k.
Wide(n)  == <<n % 2048, (n \div 2048) % 2048, n \div (2048 * 2048), 0, 0, 0>>
WPow2(k) == [i \in 1 .. 6 |-> IF i = (k \div 11) + 1 THEN 2 ^ (k % 11) ELSE 0]

WAdd(x, y) == WNorm([i \in 1 .. 6 |-> x[i] + y[i]], 0)
WSub(x, y) == WNorm([i \in 1 .. 6 |-> x[i] - y[i]], 0)

\* x * y for x and y below 2^33 (three limbs each).
WMul(x, y) ==
    LET term(i, k) == IF (k + 1) - i \in 1 .. 3 THEN x[i] * y[(k + 1) - i] ELSE 0
    IN  WNorm([k \in 1 .. 6 |-> term(1, k) + term(2, k) + term(3, k)], 0)

WLess(x, y) ==
    \E i \in 1 .. 6 : x[i] < y[i] /\ \A j \in (i + 1) .. 6 : x[j] = y[j]

\* The quotient p / d truncated, for a quotient below 2^(k+1): bit by bit.
RECURSIVE WQuot(_, _, _, _)
WQuot(p, d, q, k) ==
    IF k < 0 THEN q
    ELSE LET c == WAdd(q, WPow2(k))
         IN  IF WLess(p, WMul(c, d)) THEN WQuot(p, d, q, k - 1)
             ELSE WQuot(p, d, c, k - 1)

\* The value r of the type t, of at most 32 bits, plus 2^31: a wide natural.
Biased(t, r) ==
    IF Big(t, r) THEN WAdd(Wide((r + Highest("i32")) + 1), WPow2(32))
    ELSE IF r < 0 THEN Wide((r + Highest("i32")) + 1)
    ELSE WAdd(Wide(r), WPow2(31))

\* The terms of the general branch of scale_from, computed exactly:
\*   temp = (N(val) - in_min) * (N(MAX) - MIN) / (N(in_max) - in_min) + MIN + 1
\* `sum` is temp plus 2^31.
scale_terms(W, S, v) ==
    LET t1 == WSub(Biased(S.T, v), Biased(S.T, S.MIN))
        t2 == WSub(Biased(W.T, W.MAX), Biased(W.T, W.MIN))
        t3 == WSub(Biased(S.T, S.MAX), Biased(S.T, S.MIN))
        p  == WMul(t1, t2)
        q  == WQuot(p, t3, Wide(0), 32)
    IN  [product |-> p, quotient |-> q,
         sum |-> WAdd(WAdd(q, Biased(W.T, W.MIN)), Wide(1))]

\* The type the terms are computed in: next_up_t<fit_all_t<T, U>> in
\* types.hpp, next_up_t<T, U> in saturating_types.hpp.
scale_type(W, S)      == next_up_t({fit_all_t({W.T, S.T})})
xint_scale_type(W, S) == xint_next_up_t(<<W.T, S.T>>)

\* scale_from takes its general branch: MIN differs from in_min, the spans
\* differ, and MAX differs from in_max.
scale_general(W, S) ==
    /\ W.MIN # S.MIN
    /\ WSub(Biased(W.T, W.MAX), Biased(W.T, W.MIN))
         # WSub(Biased(S.T, S.MAX), Biased(S.T, S.MIN))
    /\ W.MAX # S.MAX

(***************************************************************************)
(* Calls of the pure functions                                             *)
(***************************************************************************)
NoCall ==
    [fn |-> "none", W |-> Natural("u8"), UA |-> "u8", a |-> 0, UB |-> "u8", b |-> 0,
     fault |-> FALSE, res |-> 0, res2 |-> 0, S |-> Natural("u8"),
     list |-> <<>>, type |-> "u8"]

Returned(fn, W, UA, a, UB, b, r) ==
    [fn |-> fn, W |-> W, UA |-> UA, a |-> a, UB |-> UB, b |-> b,
     fault |-> FALSE, res |-> r, res2 |-> 0, S |-> Natural("u8"),
     list |-> <<>>, type |-> "u8"]

Frame == UNCHANGED <<obj, value, faulted, steps, last>>

CallAdd ==
    /\ call = NoCall
    /\ \E W \in Wrappers, UA \in OperandTypes, UB \in OperandTypes :
      \E a \in Samples(UA), b \in Samples(UB) :
        /\ IF add_fast_path(W.T, W.MIN, W.MAX, UA, UB) THEN TRUE ELSE fits_add(a, b)
        /\ call' = Returned("add", W, UA, a, UB, b, type_add(W, UA, a, UB, b))
        /\ Frame

CallSubtract ==
    /\ call = NoCall
    /\ \E W \in Wrappers, UA \in OperandTypes, UB \in OperandTypes :
      \E a \in Samples(UA), b \in Samples(UB) :
        /\ fits_sub(a, b)
        /\ call' = Returned("subtract", W, UA, a, UB, b, type_subtract(W, UA, a, UB, b))
        /\ Frame

CallMultiply ==
    /\ call = NoCall
    /\ \E W \in Wrappers, UA \in OperandTypes, UB \in OperandTypes :
      \E a \in Samples(UA), b \in Samples(UB) :
        /\ fits_mul(a, b)
        /\ call' = Returned("multiply", W, UA, a, UB, b, type_multiply(W, UA, a, UB, b))
        /\ Frame

CallDivide ==
    /\ call = NoCall
    /\ \E W \in Wrappers, UA \in OperandTypes, UB \in OperandTypes :
      \E a \in Samples(UA), b \in Samples(UB) :
        \E o \in type_divide(W, UA, a, UB, b) :
            /\ call' = [Returned("divide", W, UA, a, UB, b, o.val) EXCEPT !.fault = o.fault]
          /\ Frame

\* T::from(v), then T::from of the wrapper it returned.
CallFrom ==
    /\ call = NoCall
    /\ \E W \in Wrappers, U \in OperandTypes :
      \E v \in Samples(U) :
        LET r == from(W, U, v)
        IN  /\ call' = [Returned("from", W, U, v, U, 0, r) EXCEPT !.res2 = from(W, W.T, r)]
            /\ Frame

CallXintFrom ==
    /\ call = NoCall
    /\ \E W \in Wrappers, U \in OperandTypes :
      \E v \in Samples(U) :
        LET r == xint_from(W, PlainSrc(U), v)
        IN  /\ call' = [Returned("xint_from", W, U, v, U, 0, r)
                           EXCEPT !.res2 = xint_from(W, WrapperSrc(W), r)]
            /\ Frame

\* saturating::type<T, MIN, MAX> s = v;
CallConstruct ==
    /\ call = NoCall
    /\ \E W \in Wrappers, U \in OperandTypes :
      \E v \in Samples(U) :
        /\ call' = Returned("construct", W, U, v, U, 0, construct(W, U, v))
        /\ Frame

\* xint_sat_t<T, min, max> s = v;
CallXintConstruct ==
    /\ call = NoCall
    /\ \E W \in Wrappers, U \in OperandTypes :
      \E v \in Samples(U) :
        /\ call' = Returned("xint_construct", W, U, v, U, 0, xint_construct(W, U, v))
        /\ Frame

\* s = v on a saturating::type: value = clamp(other)
CallAssign ==
    /\ call = NoCall
    /\ \E W \in Wrappers, U \in OperandTypes :
      \E v \in Samples(U) :
        /\ call' = Returned("assign", W, U, v, U, 0, clamp(W, U, v))
        /\ Frame

\* s = v on an xint_sat_t: value = clamp(other)
CallXintAssign ==
    /\ call = NoCall
    /\ \E W \in Wrappers, U \in OperandTypes :
      \E v \in Samples(U) :
        /\ call' = Returned("xint_assign", W, U, v, U, 0, xint_clamp(W, PlainSrc(U), v))
        /\ Frame

\* Wrappers that scale_from and the floating conversions are tried on: bounds
\* of at most 16 bits.
ScaleWrappers == Wrappers \ {Natural("i32")}

\* Values a source wrapper S holds: its bounds, and samples between them.
ScaleSamples(S) ==
    LET lo == IF S.MIN <= S.MAX THEN S.MIN ELSE S.MAX
        hi == IF S.MIN <= S.MAX THEN S.MAX ELSE S.MIN
    IN  {lo, hi} \cup {x \in Base \cup {-640, 4, 127, 128} : lo <= x /\ x <= hi}

\* The formula scale_from picks is evaluated exactly: its 64-bit type is
\* signed or no term is negative, the divisor is not zero, and the product
\* fits the integers of the checker.
scale_exact(W, S, v) ==
    LET plain == IsSigned(W.T) \/ (S.MIN >= 0 /\ S.MIN <= S.MAX /\ W.MIN <= W.MAX)
    IN  IF W.MIN = S.MIN
        THEN IF W.MAX = S.MAX THEN TRUE
             ELSE plain /\ W.MAX # 0 /\ fits_mul(v - W.MIN, S.MAX)
        ELSE IF W.MAX - W.MIN = S.MAX - S.MIN THEN TRUE
        ELSE IF W.MAX = S.MAX
             THEN plain /\ W.MAX # S.MIN /\ fits_mul(v, W.MAX - W.MIN)
             ELSE /\ IsSigned(W.T) \/ IsSigned(S.T) \/ (S.MIN <= S.MAX /\ W.MIN <= W.MAX)
                  /\ fits_mul(v - S.MIN, W.MAX - W.MIN)

\* T::scale_from(s), s a saturating::type<U, in_min, in_max> holding v.
CallScaleFrom ==
    /\ call = NoCall
    /\ \E W \in ScaleWrappers, S \in ScaleWrappers :
      \E v \in ScaleSamples(S) :
        /\ S.MIN # S.MAX
        /\ scale_exact(W, S, v)
        /\ call' = [Returned("scale_from", W, S.T, v, S.T, 0, scale_from(W, S, v))
                       EXCEPT !.S = S]
        /\ Frame

\* T::scale_from(s), s an xint_sat_t<U, in_min, in_max> holding v.
CallXintScaleFrom ==
    /\ call = NoCall
    /\ \E W \in ScaleWrappers, S \in ScaleWrappers :
      \E v \in ScaleSamples(S) :
        /\ S.MIN # S.MAX
        /\ scale_exact(W, S, v)
        /\ call' = [Returned("xint_scale_from", W, S.T, v, S.T, 0, xint_scale_from(W, S, v))
                       EXCEPT !.S = S]
        /\ Frame

\* Floating arguments in sixteenths: halves and quarters around zero and
\* around the 8-bit bounds.
FloatSamples ==
    {Fx(i) + f : i \in {-129, -128, -127, -3, -2, -1, 0, 1, 2, 31, 126, 127, 254, 255},
                 f \in {0, 4, 8, 12}}

\* Source ranges of a floating scale_from: (-1, 1) and (0, 1).
FloatRanges ==
    {[T |-> "float", MIN |-> -1, MAX |-> 1], [T |-> "float", MIN |-> 0, MAX |-> 1]}

\* Values of a floating range R in eighths.
RangeSamples(R) == {Fx(R.MIN) + 2 * k : k \in 0 .. (8 * (R.MAX - R.MIN))}

\* The quotient of the floating scale_from is a whole number of sixteenths.
scale_float_exact(W, x, R) ==
    ((x - Fx(R.MIN)) * (W.MAX - W.MIN)) % (R.MAX - R.MIN) = 0

\* T::from(x) of saturating::type, floating x.
CallFromFloat ==
    /\ call = NoCall
    /\ \E W \in Wrappers, x \in FloatSamples :
        /\ call' = Returned("from_float", W, "float", x, "float", 0, clamp_float(W, x))
        /\ Frame

\* T::from(x) of xint_sat_t, floating x.
CallXintFromFloat ==
    /\ call = NoCall
    /\ \E W \in ScaleWrappers, x \in FloatSamples :
        /\ W.MIN <= W.MAX
        /\ call' = Returned("xint_from_float", W, "float", x, "float", 0,
                             xint_clamp_float(W, x))
        /\ Frame

\* T::scale_from(x, in_min, in_max), floating x in the range R.
CallScaleFromFloat ==
    /\ call = NoCall
    /\ \E W \in ScaleWrappers, R \in FloatRanges :
      \E x \in RangeSamples(R) :
        /\ W.MIN < W.MAX
        /\ scale_float_exact(W, x, R)
        /\ call' = [Returned("scale_from_float", W, "float", x, "float", 0,
                              scale_from_float(W, x, R)) EXCEPT !.S = R]
        /\ Frame

\* T::scale_from(x) of xint_sat_t, floating x in the default range.
CallXintScaleFromFloat ==
    /\ call = NoCall
    /\ \E W \in ScaleWrappers :
      \E x \in RangeSamples(xint_default_range(W)) :
        /\ W.MIN < W.MAX
        /\ scale_float_exact(W, x, xint_default_range(W))
        /\ call' = [Returned("xint_scale_from_float", W, "float", x, "float", 0,
                              xint_scale_from_float(W, x, xint_default_range(W)))
                       EXCEPT !.S = xint_default_range(W)]
        /\ Frame

\* s % m and s %= m, s holding v.
CallModulo ==
    /\ call = NoCall
    /\ \E W \in Wrappers, U \in OperandTypes :
      \E v \in Samples(W.T), m \in Samples(U) :
        \E o \in modulo(W, v, U, m) :
          /\ call' = [Returned("modulo", W, W.T, v, U, m, o.val) EXCEPT !.fault = o.fault]
          /\ Frame

\* The xint_sat_t types the arithmetic is called on: those of the other
\* calls, and the natural unsigned 32-bit one.
XintWrappers == Wrappers \cup {Natural("u32")}

\* xint_sat_t<T, min, max>::add(a, b)
CallXintAdd ==
    /\ call = NoCall
    /\ \E W \in XintWrappers, UA \in OperandTypes, UB \in OperandTypes :
      \E a \in Samples(UA), b \in Samples(UB) :
        /\ IF xint_fast_path(W, UA, UB) THEN TRUE ELSE fits_add(a, b)
        /\ call' = Returned("xint_add", W, UA, a, UB, b, xint_add(W, UA, a, UB, b))
        /\ Frame

\* xint_sat_t<T, min, max>::subtract(a, b)
CallXintSubtract ==
    /\ call = NoCall
    /\ \E W \in XintWrappers, UA \in OperandTypes, UB \in OperandTypes :
      \E a \in Samples(UA), b \in Samples(UB) :
        /\ IF xint_fast_path(W, UA, UB) THEN TRUE ELSE fits_sub(a, b)
        /\ call' = Returned("xint_subtract", W, UA, a, UB, b, xint_subtract(W, UA, a, UB, b))
        /\ Frame

\* xint_sat_t<T, min, max>::multiply(a, b)
CallXintMultiply ==
    /\ call = NoCall
    /\ \E W \in XintWrappers, UA \in OperandTypes, UB \in OperandTypes :
      \E a \in Samples(UA), b \in Samples(UB) :
        /\ fits_mul(a, b)
        /\ call' = Returned("xint_multiply", W, UA, a, UB, b, xint_multiply(W, UA, a, UB, b))
        /\ Frame

\* xint_sat_t<T, min, max>::divide(a, b)
CallXintDivide ==
    /\ call = NoCall
    /\ \E W \in XintWrappers, UA \in OperandTypes, UB \in OperandTypes :
      \E a \in Samples(UA), b \in Samples(UB) :
        \E o \in xint_divide(W, UA, a, UB, b) :
          /\ call' = [Returned("xint_divide", W, UA, a, UB, b, o.val) EXCEPT !.fault = o.fault]
          /\ Frame

\* xint_sat_t<T, min, max>::clamp(val), val of the integer type U
CallXintClamp ==
    /\ call = NoCall
    /\ \E W \in XintWrappers, U \in OperandTypes :
      \E v \in Samples(U) :
        /\ call' = Returned("xint_clamp", W, U, v, U, 0, xint_clamp(W, PlainSrc(U), v))
        /\ Frame

\* The longest list of template or function arguments tried.
MaxLen == 3

\* The sequences over the set X of 1 to n members.
Lists(X, n) == UNION {[1 .. k -> X] : k \in 1 .. n}

\* Integer types of at most 8 bytes, next_up_t being defined up to there.
ListTypes == {t \in IntTypes : Bits(t) <= 64}

\* next_up_t<T...> of saturating_types.hpp on a list of integer types
CallNextUp ==
    /\ call = NoCall
    /\ \E ts \in Lists(ListTypes, MaxLen) :
        /\ call' = [NoCall EXCEPT !.fn = "next_up_t", !.list = ts,
                                   !.type = xint_next_up_t(ts)]
        /\ Frame

\* Arguments of max: the sizes in bytes of the integer types, and values
\* around zero.
MaxArgs == {-1, 0, 1, 2, 4, 8}

\* max(v1, ..., vn) of saturating_types.hpp
CallMax ==
    /\ call = NoCall
    /\ \E vs \in Lists(MaxArgs, MaxLen) :
        /\ call' = [NoCall EXCEPT !.fn = "max", !.list = vs, !.res = max(vs)]
        /\ Frame

\* Ranges the general branch is tried on at full width: 32-bit and 16-bit
\* representations, signed and unsigned, whole and one short at each end.
WideWrappers ==
    {Natural(t) : t \in {"i16", "u16", "i32", "u32"}} \cup
    { [T |-> "i16", MIN |-> -32767, MAX |-> 32766],
      [T |-> "u16", MIN |-> 1, MAX |-> 65534],
      [T |-> "i32", MIN |-> -2147483647, MAX |-> 2147483646],
      [T |-> "u32", MIN |-> 1, MAX |-> -2],
      [T |-> "i32", MIN |-> -1024, MAX |-> 1023] }

\* Values held by a source of the range S: its bounds and values next to them.
WideSamples(S) ==
    {S.MIN, S.MIN + 1, S.MAX - 1, S.MAX} \cup
    {x \in {0, 1, 127} : ~MathLess(S.T, x, S.T, S.MIN) /\ ~MathLess(S.T, S.MAX, S.T, x)}

\* The general branch of T::scale_from(s) on ranges of one width, its terms
\* kept: `type` is the type they are computed in, `list` the product
\* followed by the final sum.
CallScaleTerms ==
    /\ call = NoCall
    /\ \E W \in WideWrappers, S \in WideWrappers :
      \E v \in WideSamples(S), xint \in BOOLEAN :
        /\ Bits(W.T) = Bits(S.T)
        /\ IsSigned(W.T) = IsSigned(S.T)
        /\ scale_general(W, S)
        /\ LET t == scale_terms(W, S, v)
           IN  call' = [NoCall EXCEPT
                          !.fn = IF xint THEN "xint_scale_terms" ELSE "scale_terms",
                          !.W = W, !.S = S, !.UA = S.T, !.a = v,
                          !.type = IF xint THEN xint_scale_type(W, S) ELSE scale_type(W, S),
                          !.list = t.product \o t.sum]
        /\ Frame

InitFn ==
    /\ obj = Natural("u8")
    /\ value = 0
    /\ faulted = FALSE
    /\ steps = 0
    /\ last = "none"
    /\ call = NoCall

NextFn ==
    \/ CallAdd
    \/ CallSubtract
    \/ CallMultiply
    \/ CallDivide
    \/ CallFrom
    \/ CallXintFrom
    \/ CallConstruct
    \/ CallXintConstruct
    \/ CallAssign
    \/ CallXintAssign
    \/ CallModulo
    \/ CallScaleFrom
    \/ CallXintScaleFrom
    \/ CallFromFloat
    \/ CallXintFromFloat
    \/ CallScaleFromFloat
    \/ CallXintScaleFromFloat
    \/ CallXintAdd
    \/ CallXintSubtract
    \/ CallXintMultiply
    \/ CallXintDivide
    \/ CallXintClamp
    \/ CallNextUp
    \/ CallMax
    \/ CallScaleTerms

SpecFn == InitFn /\ [][NextFn]_vars

(***************************************************************************)
(* One saturating::type object and the operators that change it            *)
(***************************************************************************)
MaxSteps == 3

\* Right-hand sides handed to the operators of the object.
ObjTypes == {"i8", "u8", "i32", "u32"}
ObjBase  == {-1, 0, 2, 101}

ObjSamples(t) ==
    LET lo == Lowest(t)
        hi == IF t = "u32" THEN Highest("i32") ELSE Highest(t)
    IN  {lo, hi} \cup {x \in ObjBase : lo <= x /\ x <= hi}

\* The wrappers an object is made of: those of the calls, and an unsigned
\* 32-bit one whose MAX is 0 (its bounds are unsigned int, so is MAX - 1).
ObjWrappers == Wrappers \cup {[T |-> "u32", MIN |-> 0, MAX |-> 0]}

Live == ~faulted /\ steps < MaxSteps

Stored(op, v) ==
    /\ value' = v
    /\ last' = op
    /\ steps' = steps + 1
    /\ UNCHANGED <<obj, faulted, call>>

\* operator=: value = clamp(other)
Assign ==
    /\ Live
    /\ \E U \in ObjTypes : \E x \in ObjSamples(U) :
         Stored("=", clamp(obj, U, x))

\* operator+=: value = add(value, other)
AddAssign ==
    /\ Live
    /\ \E U \in ObjTypes : \E x \in ObjSamples(U) :
         /\ IF add_fast_path(obj.T, obj.MIN, obj.MAX, obj.T, U) THEN TRUE
            ELSE fits_add(value, x)
         /\ Stored("+=", operator_plus_assign(obj, value, U, x))

\* operator-=: value = subtract(value, other)
SubAssign ==
    /\ Live
    /\ \E U \in ObjTypes : \E x \in ObjSamples(U) :
         /\ fits_sub(value, x)
         /\ Stored("-=", operator_minus_assign(obj, value, U, x))

\* operator*=: value = multiply(value, other)
MulAssign ==
    /\ Live
    /\ \E U \in ObjTypes : \E x \in ObjSamples(U) :
         /\ fits_mul(value, x)
         /\ Stored("*=", operator_times_assign(obj, value, U, x))

\* operator/=: value = divide(value, other).  A trap ends the program with
\* the object as it was.
DivAssign ==
    /\ Live
    /\ \E U \in ObjTypes : \E x \in ObjSamples(U) :
         \E o \in operator_over_assign(obj, value, U, x) :
           IF o.fault
           THEN /\ faulted' = TRUE
                /\ last' = "/="
                /\ steps' = steps + 1
                /\ UNCHANGED <<obj, value, call>>
           ELSE Stored(IF x = 0 THEN "/=0" ELSE "/=", o.val)

PreIncrement  == Live /\ Stored("++x", increment(obj, value))
PostIncrement == Live /\ Stored("x++", increment(obj, value))
PreDecrement  == Live /\ Stored("--x", decrement(obj, value))
PostDecrement == Live /\ Stored("x--", decrement(obj, value))

\* The object starts from T::from(x).
Init ==
    /\ obj \in ObjWrappers
    /\ \E U \in ObjTypes : \E x \in ObjSamples(U) : value = from(obj, U, x)
    /\ faulted = FALSE
    /\ steps = 0
    /\ last = "from"
    /\ call = NoCall

Next ==
    \/ Assign
    \/ AddAssign
    \/ SubAssign
    \/ MulAssign
    \/ DivAssign
    \/ PreIncrement
    \/ PostIncrement
    \/ PreDecrement
    \/ PostDecrement

Spec == Init /\ [][Next]_vars

(***************************************************************************)
(* One operator applied to an object, its operands and its result observed *)
(***************************************************************************)
\* The operator `op` was applied to the object with the right-hand side x of
\* type U and returned r; what it stored is in value'.
Applied(op, U, x, r) ==
    /\ call' = Returned(op, obj, obj.T, value, U, x, r)
    /\ last' = op
    /\ steps' = steps + 1
    /\ UNCHANGED <<obj, faulted>>

\* x += y, the operands kept in `call`
PlusAssign ==
    /\ Live
    /\ \E U \in ObjTypes : \E x \in ObjSamples(U) :
         /\ IF add_fast_path(obj.T, obj.MIN, obj.MAX, obj.T, U) THEN TRUE
            ELSE fits_add(value, x)
         /\ value' = operator_plus_assign(obj, value, U, x)
         /\ Applied("+=", U, x, value')

\* x -= y
MinusAssign ==
    /\ Live
    /\ \E U \in ObjTypes : \E x \in ObjSamples(U) :
         /\ fits_sub(value, x)
         /\ value' = operator_minus_assign(obj, value, U, x)
         /\ Applied("-=", U, x, value')

\* x *= y
TimesAssign ==
    /\ Live
    /\ \E U \in ObjTypes : \E x \in ObjSamples(U) :
         /\ fits_mul(value, x)
         /\ value' = operator_times_assign(obj, value, U, x)
         /\ Applied("*=", U, x, value')

\* x /= y.  A trap ends the program with the object as it was.
OverAssign ==
    /\ Live
    /\ \E U \in ObjTypes : \E x \in ObjSamples(U) :
         \E o \in operator_over_assign(obj, value, U, x) :
           IF o.fault
           THEN /\ faulted' = TRUE
                /\ last' = "/="
                /\ steps' = steps + 1
                /\ UNCHANGED <<obj, value, call>>
           ELSE /\ value' = o.val
                /\ Applied(IF x = 0 THEN "/=0" ELSE "/=", U, x, value')

\* x + y: const, returns add(value, other)
Plus ==
    /\ Live
    /\ \E U \in ObjTypes : \E x \in ObjSamples(U) :
         /\ IF add_fast_path(obj.T, obj.MIN, obj.MAX, obj.T, U) THEN TRUE
            ELSE fits_add(value, x)
         /\ Applied("+", U, x, operator_plus(obj, value, U, x))
         /\ UNCHANGED value

\* x - y: const, returns subtract(value, other)
Minus ==
    /\ Live
    /\ \E U \in ObjTypes : \E x \in ObjSamples(U) :
         /\ fits_sub(value, x)
         /\ Applied("-", U, x, operator_minus(obj, value, U, x))
         /\ UNCHANGED value

\* x * y: const, returns multiply(value, other)
Times ==
    /\ Live
    /\ \E U \in ObjTypes : \E x \in ObjSamples(U) :
         /\ fits_mul(value, x)
         /\ Applied("*", U, x, operator_times(obj, value, U, x))
         /\ UNCHANGED value

\* x / y: const, returns divide(value, other)
Over ==
    /\ Live
    /\ \E U \in ObjTypes : \E x \in ObjSamples(U) :
         \E o \in operator_over(obj, value, U, x) :
           IF o.fault
           THEN /\ faulted' = TRUE
                /\ last' = "/"
                /\ steps' = steps + 1
                /\ UNCHANGED <<obj, value, call>>
           ELSE /\ Applied("/", U, x, o.val)
                /\ UNCHANGED value

\* The object was constructed from a raw value of its representation type,
\* which the constructor stores as it is, and has one operation left.
InitOps ==
    /\ obj \in ObjWrappers
    /\ value \in Samples(obj.T)
    /\ faulted = FALSE
    /\ steps = MaxSteps - 1
    /\ last = "construct"
    /\ call = NoCall

NextOps ==
    \/ Plus
    \/ Minus
    \/ Times
    \/ Over
    \/ PlusAssign
    \/ MinusAssign
    \/ TimesAssign
    \/ OverAssign

SpecOps == InitOps /\ [][NextOps]_vars

(***************************************************************************)
(* Properties                                                              *)
(***************************************************************************)
\* The textbook clamp max(lo, min(x, hi)).
Clamp3(lo, x, hi) == IF x < lo THEN lo ELSE IF x > hi THEN hi ELSE x

IsNatural(W) == W = Natural(W.T)

\* The exact sum a + b clamped to [lo, hi], lo and hi bounds of a type of
\* at most 32 bits: a sum beyond 32 bits is beyond the bound on its side.
SumClamped(lo, a, b, hi) ==
    IF add_overflow("i32", a, b) THEN (IF b > 0 THEN hi ELSE lo)
    ELSE Clamp3(lo, a + b, hi)

\* The exact quotient a / b (b not zero) rounded to the nearest integer,
\* ties away from zero, then clamped to [lo, hi].
QuotientClamped(lo, a, b, hi) ==
    LET half == 1073741824
        abs(x) == IF x < 0 THEN -x ELSE x
    IN  IF b = Lowest("i32")
        THEN Clamp3(lo, IF a <= -half THEN 1 ELSE IF a >= half THEN -1 ELSE 0, hi)
        ELSE IF a = Lowest("i32") /\ b = -1 THEN hi
        ELSE LET t == TruncDiv(a, b)
                 r == abs(a - t * b)
                 away == IF (a < 0) = (b < 0) THEN 1 ELSE -1
             IN  Clamp3(lo, IF r >= abs(b) - r THEN t + away ELSE t, hi)

\* C1: the value stored in a saturating::type object that started from
\* from() lies in [min(MIN,MAX), max(MIN,MAX)] after every sequence of
\* operator=, +=, -=, *=, /=, ++ and --.
C1_StoredInRange ==
    LET lo == IF obj.MIN <= obj.MAX THEN obj.MIN ELSE obj.MAX
        hi == IF obj.MIN <= obj.MAX THEN obj.MAX ELSE obj.MIN
    IN  lo <= value /\ value <= hi

\* C1 witness: a compound operator has saturated an object with bounds of
\* its own at its MAX, after an earlier operation.
C1_Witness ==
    /\ steps >= 2
    /\ last \in {"+=", "-=", "*=", "/="}
    /\ ~IsNatural(obj)
    /\ value = obj.MAX

\* C2: with natural bounds add(a, b) is the exact sum clamped to
\* [min_val, max_val], for operands of every integer type.
C2_AddIsClampedSum ==
    (call.fn = "add" /\ IsNatural(call.W))
        => call.res = SumClamped(call.W.MIN, call.a, call.b, call.W.MAX)

\* C3: with natural bounds multiply(a, b) is the exact product clamped to
\* [min_val, max_val]; an unsigned 8-bit value times a factor that takes the
\* product past 255 gives 255.
C3_MultiplyIsClampedProduct ==
    (call.fn = "multiply" /\ IsNatural(call.W))
        => call.res = Clamp3(call.W.MIN, call.a * call.b, call.W.MAX)

\* C3 witness: uint_sat8_t, a stored 8-bit value times a factor beyond 255.
C3_Witness ==
    /\ call.fn = "multiply"
    /\ call.W = Natural("u8")
    /\ call.UA = "u8"
    /\ call.a * call.b > 255
    /\ call.res = 255

\* C4: subtract(a, b) is the exact difference clamped to [MIN, MAX], for
\* signed and unsigned operands; an unsigned s less an unsigned v > s is MIN.
C4_SubtractIsClampedDifference ==
    (call.fn = "subtract" /\ call.W.MIN <= call.W.MAX)
        => call.res = Clamp3(call.W.MIN, call.a - call.b, call.W.MAX)

\* C5: divide(a, 0) never faults and is MAX for a >= 0, MIN for a < 0.
C5_DivideByZeroSaturates ==
    (call.fn = "divide" /\ call.b = 0)
        => /\ ~call.fault
           /\ call.res = IF call.a >= 0 THEN call.W.MAX ELSE call.W.MIN

\* C6: for b not zero divide(a, b) is the exact quotient rounded to the
\* nearest integer, ties away from zero, clamped to [MIN, MAX], whatever the
\* signs and the signedness of the operand types.
C6_DivideRoundsToNearest ==
    (call.fn = "divide" /\ call.b # 0 /\ call.W.MIN <= call.W.MAX)
        => /\ ~call.fault
           /\ call.res = QuotientClamped(call.W.MIN, call.a, call.b, call.W.MAX)

\* v lies in [MIN - 2, MAX + 2].
NearRange(W, v) ==
    /\ IF v >= W.MIN THEN TRUE ELSE v >= W.MIN - 2
    /\ IF v <= W.MAX THEN TRUE ELSE v <= W.MAX + 2

\* C7: with natural bounds, from(v) is the textbook clamp of v for every v
\* in [MIN - 2, MAX + 2], in every integer source type that holds v.
C7_FromIsTextbookClamp ==
    (/\ call.fn \in {"from", "xint_from"}
     /\ IsNatural(call.W)
     /\ NearRange(call.W, call.a))
        => call.res = Clamp3(call.W.MIN, call.a, call.W.MAX)

\* C8: with inverted bounds (MIN > MAX) from(v) is MAX for v < MAX, MIN for
\* v > MIN, and v otherwise.
C8_InvertedFrom ==
    (call.fn = "xint_from" /\ call.W.MIN > call.W.MAX)
        => call.res = IF call.a < call.W.MAX THEN call.W.MAX
                      ELSE IF call.a > call.W.MIN THEN call.W.MIN ELSE call.a

\* C9: from(from(x)) holds the value of from(x), in both wrappers.
C9_FromIdempotent ==
    call.fn \in {"from", "xint_from"} => call.res2 = call.res

\* C9 witness: from() clamped an out-of-range input, and was applied again.
C9_Witness ==
    /\ call.fn = "from"
    /\ call.W = [T |-> "u8", MIN |-> 10, MAX |-> 20]
    /\ call.a = 256
    /\ call.res = 20
    /\ call.res2 = 20

\* C10: with natural bounds a wrapper holding MAX plus 1 is MAX, and a
\* signed wrapper holding MIN plus -1 is MIN (operator+ is add(value, other)).
C10_AddAtTheBounds ==
    (call.fn = "add" /\ IsNatural(call.W) /\ call.UA = call.W.T)
        => /\ (call.a = call.W.MAX /\ call.b = 1) => call.res = call.W.MAX
           /\ (IsSigned(call.W.T) /\ call.a = call.W.MIN /\ call.b = -1)
                  => call.res = call.W.MIN

\* C10 witness: int_sat32_t holding INT_MAX, plus the int 1.
C10_Witness ==
    /\ call.fn = "add"
    /\ call.W = Natural("i32")
    /\ call.UA = "i32"
    /\ call.UB = "i32"
    /\ call.a = call.W.MAX
    /\ call.b = 1
    /\ call.res = call.W.MAX

\* C11: add and multiply are commutative: the call with the operands (and
\* their types) exchanged returns the same value, overflowing pairs included.
C11_Commutative ==
    /\ call.fn = "add"
          => call.res = type_add(call.W, call.UB, call.b, call.UA, call.a)
    /\ call.fn = "multiply"
          => call.res = type_multiply(call.W, call.UB, call.b, call.UA, call.a)

\* The part of C11 about multiply alone.
C11_MultiplyCommutes ==
    call.fn = "multiply"
        => call.res = type_multiply(call.W, call.UB, call.b, call.UA, call.a)

\* The part of C11 about add, away from the signed fast path on overflow.
C11_AddCommutesElsewhere ==
    (/\ call.fn = "add"
     /\ ~(/\ add_fast_path(call.W.T, call.W.MIN, call.W.MAX, call.UA, call.UB)
          /\ IsSigned(call.W.T)
          /\ add_overflow(call.W.T, call.a, call.b)))
        => call.res = type_add(call.W, call.UB, call.b, call.UA, call.a)

\* v lies outside the bounds of W.
OutOfBounds(W, v) == v < W.MIN \/ v > W.MAX

\* C12: a wrapper constructed from a raw value v of its representation type
\* holds exactly v, also when v is outside [MIN, MAX].
C12_RawConstructionStores ==
    (call.fn \in {"construct", "xint_construct"} /\ call.UA = call.W.T)
        => call.res = call.a

\* C12 witness: both wrappers with bounds [-10, 20] constructed from 100.
C12_Witness ==
    /\ call.fn \in {"construct", "xint_construct"}
    /\ call.W = [T |-> "i8", MIN |-> -10, MAX |-> 20]
    /\ call.UA = "i8"
    /\ call.a = 100
    /\ call.res = 100

\* C13: uint_sat8_t initialised with 256 holds 255 and with -1 holds 0;
\* int_sat8_t initialised with 129 holds 127 and with -129 holds -128.
C13_ConstructionSaturates ==
    (/\ call.fn = "construct"
     /\ call.UA = "i32"
     /\ \/ call.W = Natural("u8") /\ call.a \in {256, -1}
        \/ call.W = Natural("i8") /\ call.a \in {129, -129})
        => call.res = Clamp3(call.W.MIN, call.a, call.W.MAX)

IncOps == {"++x", "x++"}
DecOps == {"--x", "x--"}

\* value lies in [MIN, MAX] of the object.
InBounds(v) == obj.MIN <= v /\ v <= obj.MAX

\* C15: ++ adds one only while value < MAX - 1 and -- subtracts one only
\* while value > MIN + 1 (so a value at MAX - 1 or MIN + 1 stays), and no
\* ++ or -- takes a value inside [MIN, MAX] out of it.
C15_IncrementDecrement ==
    [][/\ last' \in IncOps
            => value' = IF value < obj.MAX - 1 THEN value + 1 ELSE value
       /\ last' \in DecOps
            => value' = IF value > obj.MIN + 1 THEN value - 1 ELSE value
       /\ (last' \in IncOps \cup DecOps /\ InBounds(value)) => InBounds(value')]_vars

\* C15 holds of every object but the unsigned 32-bit one with MAX = 0.
C15_ElsewhereHolds ==
    [][obj.T # "u32" =>
       /\ last' \in IncOps
            => value' = IF value < obj.MAX - 1 THEN value + 1 ELSE value
       /\ last' \in DecOps
            => value' = IF value > obj.MIN + 1 THEN value - 1 ELSE value
       /\ (last' \in IncOps \cup DecOps /\ InBounds(value)) => InBounds(value')]_vars

\* C1 holds of every object but the unsigned 32-bit one with MAX = 0.
C1_ElsewhereHolds == obj.T # "u32" => C1_StoredInRange

\* The remainder of the division of a by m (m not zero) truncated toward zero.
TruncRem(a, m) == IF m \in {1, -1} THEN 0 ELSE a - m * TruncDiv(a, m)

\* C16: for m not zero, v % m (and v %= m) never faults and holds the
\* truncated remainder of v by m as it is, with no clamp to [MIN, MAX].
C16_ModuloPassthrough ==
    (call.fn = "modulo" /\ call.b # 0)
        => /\ ~call.fault
           /\ call.res = TruncRem(call.a, call.b)

\* C16 holds away from INT_MIN % -1 and from a negative value met with an
\* unsigned int divisor.
C16_ElsewhereHolds ==
    (/\ call.fn = "modulo"
     /\ call.b # 0
     /\ ~(call.a = Lowest("i32") /\ call.b = -1)
     /\ ~(call.a < 0 /\ call.UB = "u32"))
        => /\ ~call.fault
           /\ call.res = TruncRem(call.a, call.b)

\* A remainder outside the bounds is returned as it is: 25 % 7 with bounds
\* [10, 20] is 4.
C16_Unclamped ==
    /\ call.fn = "modulo"
    /\ call.W = [T |-> "u8", MIN |-> 10, MAX |-> 20]
    /\ call.a = 25 /\ call.b = 7
    /\ call.res = 4

ScaleFns == {"scale_from", "xint_scale_from"}

\* C17: the integer scale_from returns a value inside the destination
\* bounds, the source minimum mapped to MIN and the source maximum to MAX.
C17_ScaleFromOntoBounds ==
    call.fn \in ScaleFns
        => LET W  == call.W
               S  == call.S
               lo == IF W.MIN <= W.MAX THEN W.MIN ELSE W.MAX
               hi == IF W.MIN <= W.MAX THEN W.MAX ELSE W.MIN
           IN  /\ lo <= call.res /\ call.res <= hi
               /\ call.a = S.MIN => call.res = W.MIN
               /\ call.a = S.MAX => call.res = W.MAX

\* C17 holds where the two ranges are identical, and where they have the
\* same span and that span is the whole of the destination type.
C17_ElsewhereHolds ==
    (/\ call.fn \in ScaleFns
     /\ \/ call.W.MIN = call.S.MIN /\ call.W.MAX = call.S.MAX
        \/ /\ IsNatural(call.W)
           /\ call.W.MAX - call.W.MIN = call.S.MAX - call.S.MIN)
        => /\ \/ call.W.MIN <= call.res /\ call.res <= call.W.MAX
              \/ call.W.MAX <= call.res /\ call.res <= call.W.MIN
           /\ call.a = call.S.MIN => call.res = call.W.MIN
           /\ call.a = call.S.MAX => call.res = call.W.MAX

Affine(c) ==
    ((c.a - Fx(c.S.MIN)) * (c.W.MAX - c.W.MIN)) \div (c.S.MAX - c.S.MIN) + Fx(c.W.MIN)

\* C19 as stated: 0.25 scaled from the default range (-1, 1) into the 8-bit
\* signed wrapper is 32.
C19_QuarterScalesTo32 ==
    (/\ call.fn = "xint_scale_from_float"
     /\ call.W = Natural("i8")
     /\ call.a = Fx(1) \div 4)
        => call.res = 32

\* C19 amended: 0.25 scaled from the default range (-1, 1) into the 8-bit
\* signed wrapper is 31, the affine image 31.375 rounded to the nearest.
C19_QuarterScalesTo31 ==
    (/\ call.fn \in {"xint_scale_from_float", "scale_from_float"}
     /\ call.W = Natural("i8")
     /\ call.S.MIN = -1 /\ call.S.MAX = 1
     /\ call.a = Fx(1) \div 4)
        => /\ Affine(call) = Fx(31) + 6
           /\ call.res = 31

\* C19 witness: int_sat8_t::scale_from(0.25f) with the default range.
C19_Witness ==
    /\ call.fn = "xint_scale_from_float"
    /\ call.W = Natural("i8")
    /\ call.S = [T |-> "float", MIN |-> -1, MAX |-> 1]
    /\ call.a = Fx(1) \div 4
    /\ call.res = 31

\* x has a fractional part of exactly one half.
IsHalf(x) == x % Fx(1) = Fx(1) \div 2

\* C20: from(x) of a floating x with fraction one half whose rounded value
\* is inside [MIN, MAX] is the neighbour of larger magnitude, and the
\* floating scale_from rounds its result by the same rule, negative or not.
C20_RoundsHalfAwayFromZero ==
    /\ (/\ call.fn \in {"from_float", "xint_from_float"}
        /\ IsHalf(call.a)
        /\ call.W.MIN <= FxRound(call.a) /\ FxRound(call.a) <= call.W.MAX)
           => call.res = FxRound(call.a)
    /\ call.fn \in {"scale_from_float", "xint_scale_from_float"}
           => call.res = FxRound(Affine(call))

\* The part of C20 about from().
C20_FromRoundsHalfAway ==
    (/\ call.fn \in {"from_float", "xint_from_float"}
     /\ call.W.MIN <= FxRound(call.a) /\ FxRound(call.a) <= call.W.MAX)
        => call.res = FxRound(call.a)

\* The part of C20 about scale_from, for results that are not negative.
C20_ScaleRoundsPositive ==
    (/\ call.fn \in {"scale_from_float", "xint_scale_from_float"}
     /\ Affine(call) >= 0)
        => call.res = FxRound(Affine(call))

BinaryOps   == {"+", "-", "*", "/"}
CompoundOps == {"+=", "-=", "*=", "/=", "/=0"}

\* The values the static add / subtract / multiply / divide of the wrapper W
\* return for the left operand v and the right operand x of type U.
StaticResults(op, W, v, U, x) ==
    CASE op \in {"+", "+="} -> {type_add(W, W.T, v, U, x)}
      [] op \in {"-", "-="} -> {type_subtract(W, W.T, v, U, x)}
      [] op \in {"*", "*="} -> {type_multiply(W, W.T, v, U, x)}
      [] OTHER -> {o.val : o \in {q \in type_divide(W, W.T, v, U, x) : ~q.fault}}

\* The values the binary operator matching `op` returns on a wrapper holding v.
BinaryResults(op, W, v, U, x) ==
    CASE op \in {"+", "+="} -> {operator_plus(W, v, U, x)}
      [] op \in {"-", "-="} -> {operator_minus(W, v, U, x)}
      [] op \in {"*", "*="} -> {operator_times(W, v, U, x)}
      [] OTHER -> {o.val : o \in {q \in operator_over(W, v, U, x) : ~q.fault}}

\* C21: the binary operators x + y, x - y, x * y, x / y leave the stored
\* value of x unchanged and return what the static add / subtract / multiply /
\* divide return with the value of x as the left operand; the compound
\* operators += -= *= /= change only x, and leave it holding exactly the
\* value the matching binary operator returns for the same operands.
C21_OperatorsFrame ==
    [][~faulted' =>
        /\ last' \in BinaryOps =>
              /\ value' = value
              /\ obj' = obj
              /\ call'.a = value
              /\ call'.res \in StaticResults(last', obj, value, call'.UB, call'.b)
        /\ last' \in CompoundOps =>
              /\ obj' = obj
              /\ faulted' = faulted
              /\ call'.a = value
              /\ value' \in BinaryResults(last', obj, value, call'.UB, call'.b)]_vars

\* A compound addition has saturated the object at its upper bound.
C21_Witness ==
    /\ last = "+="
    /\ call.a # value
    /\ value = obj.MAX
    /\ call.a + call.b > obj.MAX

\* C22: whenever saturating::add selects its fast path (natural bounds and T
\* the fit-all type of T and both operand types), the value it returns is the
\* value the widen-then-clamp slow path computes for the same operands.
C22_FastPathRefinesSlowPath ==
    LET W == call.W
    IN  (/\ call.fn = "add"
         /\ add_fast_path(W.T, W.MIN, W.MAX, call.UA, call.UB)
         /\ fits_add(call.a, call.b))
            => call.res = add_slow_path(W.T, W.MIN, W.MAX, call.UA, call.a, call.UB, call.b)

\* C22, where it holds: the two paths agree on every pair whose sum stays in
\* the range of T, and on every pair of an unsigned T.
C22_AgreeWithoutSignedOverflow ==
    LET W == call.W
    IN  (/\ call.fn = "add"
         /\ add_fast_path(W.T, W.MIN, W.MAX, call.UA, call.UB)
         /\ fits_add(call.a, call.b)
         /\ ~IsSigned(W.T) \/ (W.MIN <= call.a + call.b /\ call.a + call.b <= W.MAX))
            => call.res = add_slow_path(W.T, W.MIN, W.MAX, call.UA, call.a, call.UB, call.b)

\* The exact integer x clamped to the bounds of the wrapper W with natural
\* bounds, as a value of the type W.T.
ExactClamped(W, x) ==
    IF W.T = "u32" THEN (IF x < 0 THEN 0 ELSE x) ELSE Clamp3(W.MIN, x, W.MAX)

\* The exact result of the xint_sat_t call recorded in c, when it fits the
\* integers of the checker.
XintFits(c) ==
    CASE c.fn = "xint_add"      -> fits_add(c.a, c.b)
      [] c.fn = "xint_subtract" -> fits_sub(c.a, c.b)
      [] c.fn = "xint_multiply" -> fits_mul(c.a, c.b)
      [] OTHER -> FALSE

XintExact(c) ==
    CASE c.fn = "xint_add"      -> c.a + c.b
      [] c.fn = "xint_subtract" -> c.a - c.b
      [] c.fn = "xint_multiply" -> c.a * c.b

\* C23: in xint_sat_t with natural bounds, whenever add, subtract or multiply
\* take the builtin-overflow fast path, the result is the exact mathematical
\* result on the original operand values clamped to [min, max], whatever the
\* signedness of the operands: negative signed operands on an unsigned
\* representation included.
C23_XintFastPathExact ==
    (/\ call.fn \in {"xint_add", "xint_subtract", "xint_multiply"}
     /\ xint_fast_path(call.W, call.UA, call.UB)
     /\ XintFits(call))
        => call.res = ExactClamped(call.W, XintExact(call))

\* C23, where it holds: on the fast path of a signed representation, and of
\* an unsigned one when neither operand is negative.
C23_ExactWithoutNegativeOnUnsigned ==
    (/\ call.fn \in {"xint_add", "xint_subtract", "xint_multiply"}
     /\ xint_fast_path(call.W, call.UA, call.UB)
     /\ XintFits(call)
     /\ IsSigned(call.W.T) \/ (call.a >= 0 /\ call.b >= 0))
        => call.res = ExactClamped(call.W, XintExact(call))

\* Every value of the integer type U lies in the bounds of W, by value.
AllValuesInBounds(W, U) ==
    /\ ~MathLess(U, Lowest(U), W.T, W.MIN)
    /\ ~MathLess(W.T, W.MAX, U, Highest(U))

\* C24: xint_sat_t::clamp takes its cast-only branch for a source integer
\* type U only when every value of U lies in [MIN, MAX]; so for every U and
\* every value the cast-only branch returns what compare-and-clamp would.
C24_CastOnlyWhenAllFit ==
    (call.fn = "xint_clamp" /\ xint_cast_only(call.W, PlainSrc(call.UA)))
        => /\ AllValuesInBounds(call.W, call.UA)
           /\ call.res = xint_compare_clamp(call.W, call.UA, call.a)

\* C24, where it holds: on every representation but the unsigned 32-bit one.
C24_CastOnlyBelow32Unsigned ==
    (/\ call.fn = "xint_clamp"
     /\ xint_cast_only(call.W, PlainSrc(call.UA))
     /\ call.W.T # "u32")
        => /\ AllValuesInBounds(call.W, call.UA)
           /\ call.res = xint_compare_clamp(call.W, call.UA, call.a)

\* The width in bits of the widest type of the list ts.
Widest(ts) ==
    CHOOSE n \in {Bits(ts[i]) : i \in 1 .. Len(ts)} : \A i \in 1 .. Len(ts) : Bits(ts[i]) <= n

\* C25: for every non-empty list of integer types of at most 8 bytes,
\* next_up_t yields a type at least twice as wide as the widest type of the
\* list, signed if any type of the list is signed and unsigned otherwise.
C25_NextUpDoubles ==
    call.fn = "next_up_t"
        => /\ Bits(call.type) >= 2 * Widest(call.list)
           /\ IsSigned(call.type) = (\E i \in 1 .. Len(call.list) : IsSigned(call.list[i]))

\* C25, where it holds: the signedness always, the width for a list of one
\* type and for lists of types of at most 4 bytes.
C25_NextUpOfNarrowLists ==
    call.fn = "next_up_t"
        => /\ IsSigned(call.type) = (\E i \in 1 .. Len(call.list) : IsSigned(call.list[i]))
           /\ (Len(call.list) = 1 \/ Widest(call.list) <= 32)
                 => Bits(call.type) >= 2 * Widest(call.list)

\* The largest and the smallest member of the list vs.
Largest(vs) ==
    CHOOSE m \in {vs[i] : i \in 1 .. Len(vs)} : \A i \in 1 .. Len(vs) : vs[i] <= m

Smallest(vs) ==
    CHOOSE m \in {vs[i] : i \in 1 .. Len(vs)} : \A i \in 1 .. Len(vs) : m <= vs[i]

\* C30: the variadic helper max(v1, ..., vn) of saturating_types.hpp returns
\* the largest of its arguments, for every non-empty argument list.
C30_MaxIsLargest ==
    call.fn = "max" => call.res = Largest(call.list)

\* C30, what the helper returns instead: the smallest of its arguments (the
\* largest only when all are equal, a single argument among them).
C30_MaxIsSmallest ==
    call.fn = "max" => call.res = Smallest(call.list)

\* The call recorded in c went down a slow path: it widened its operands to
\* a working type before the operator.
OnSlowPath(c) ==
    CASE c.fn = "add" -> ~add_fast_path(c.W.T, c.W.MIN, c.W.MAX, c.UA, c.UB)
      [] c.fn \in {"subtract", "multiply"} -> TRUE
      [] c.fn \in {"xint_add", "xint_subtract", "xint_multiply"} ->
             ~xint_fast_path(c.W, c.UA, c.UB)
      [] OTHER -> FALSE

\* The working type of the slow path of the call recorded in c.
WorkingType(c) ==
    IF c.fn \in {"add", "subtract", "multiply"}
    THEN next_up_t({fit_all_t({c.UA, c.UB})})
    ELSE xint_next_up_t(<<c.UA, c.UB>>)

\* The exact result of the operator of the call recorded in c.
ExactResult(c) ==
    CASE c.fn \in {"add", "xint_add"}           -> c.a + c.b
      [] c.fn \in {"subtract", "xint_subtract"} -> c.a - c.b
      [] c.fn \in {"multiply", "xint_multiply"} -> c.a * c.b

\* The integer x, of magnitude below 2^31, is a value of the type t.
Representable(t, x) ==
    IF Bits(t) >= 32 THEN IsSigned(t) \/ x >= 0
    ELSE Lowest(t) <= x /\ x <= Highest(t)

\* C26: on the slow path the exact sum, difference or product of the
\* operands is representable in the promoted working type, so a + b, a - b
\* and a * b never wrap before the clamp: a - b with two unsigned operands
\* and b > a included.
C26_SlowPathNeverWraps ==
    OnSlowPath(call) => Representable(WorkingType(call), ExactResult(call))

\* C26, where it holds: for sums and products, and for the difference
\* unless both operand types are unsigned and b > a.
C26_WrapsOnlyUnsignedDifference ==
    (/\ OnSlowPath(call)
     /\ \/ call.fn \notin {"subtract", "xint_subtract"}
        \/ IsSigned(call.UA) \/ IsSigned(call.UB)
        \/ call.a >= call.b)
        => Representable(WorkingType(call), ExactResult(call))

\* The call recorded in c divides the MIN of a signed representation with
\* natural bounds, held in the representation type, by -1.
MinByMinusOne(c) ==
    /\ c.fn \in {"divide", "xint_divide"}
    /\ IsSigned(c.W.T)
    /\ IsNatural(c.W)
    /\ c.UA = c.W.T
    /\ c.a = c.W.MIN
    /\ IsSigned(c.UB)
    /\ c.b = -1

\* C27: for a signed representation with natural bounds divide(MIN, -1)
\* returns MAX, with no fault and no wrap to MIN, at every width, the widest
\* included.
C27_MinByMinusOneIsMax ==
    MinByMinusOne(call) => ~call.fault /\ call.res = call.W.MAX

\* C27, where it holds: saturating::divide on a representation narrower
\* than int, whose quotient is computed in int and then clamped.
C27_NarrowDivideIsMax ==
    (MinByMinusOne(call) /\ call.fn = "divide" /\ Bits(call.W.T) < 32)
        => ~call.fault /\ call.res = call.W.MAX

\* The integer scale_from recorded in c took one of its shortcut branches:
\* MIN equal to the source MIN with another MAX, spans equal with another
\* MIN, or MAX equal to the source MAX with another MIN.  Both ranges are
\* in order, and the value is in the source range.
OnShortcut(c) ==
    /\ c.fn \in ScaleFns
    /\ c.S.MIN < c.S.MAX /\ c.W.MIN < c.W.MAX
    /\ c.S.MIN <= c.a /\ c.a <= c.S.MAX
    /\ \/ c.W.MIN = c.S.MIN /\ c.W.MAX # c.S.MAX
       \/ c.W.MIN # c.S.MIN /\ c.W.MAX - c.W.MIN = c.S.MAX - c.S.MIN
       \/ c.W.MIN # c.S.MIN /\ c.W.MAX = c.S.MAX

\* r is within 1 of MIN + (v - in_min) * (MAX - MIN) / (in_max - in_min),
\* the quotient exact: compared after multiplying by in_max - in_min.
WithinOneOfAffine(c, r) ==
    LET span == c.S.MAX - c.S.MIN
        d    == (r - c.W.MIN) * span - (c.a - c.S.MIN) * (c.W.MAX - c.W.MIN)
    IN  -span <= d /\ d <= span

\* The products of WithinOneOfAffine fit the integers of the checker.
AffineFits(c, r) ==
    /\ fits_sub(r, c.W.MIN)
    /\ fits_mul(r - c.W.MIN, c.S.MAX - c.S.MIN)
    /\ fits_mul(c.a - c.S.MIN, c.W.MAX - c.W.MIN)

\* C28: whenever the integer scale_from takes a shortcut branch, its result
\* differs by at most 1 from the exact affine image
\* MIN + (v - sourceMin) * (MAX - MIN) / (sourceMax - sourceMin), for every
\* v of the source range.
C28_ShortcutsWithinOne ==
    (OnShortcut(call) /\ AffineFits(call, call.res))
        => WithinOneOfAffine(call, call.res)

\* C28, where it holds: the range shift onto a destination whose span is
\* the whole of its type, the sum being narrowed modulo that span.
C28_ShiftOfWholeSpan ==
    (/\ OnShortcut(call)
     /\ AffineFits(call, call.res)
     /\ IsNatural(call.W)
     /\ call.W.MAX - call.W.MIN = call.S.MAX - call.S.MIN)
        => WithinOneOfAffine(call, call.res)

\* The wide natural x is a value of the type t, of 64 bits or more.
WideFits(t, x) ==
    IF Bits(t) > 64 THEN TRUE
    ELSE IF IsSigned(t) THEN WLess(x, WPow2(63)) ELSE WLess(x, WPow2(64))

\* The integer x - 2^31, of magnitude below 2^33, is a value of the type t,
\* of 64 bits or more.
BiasedFits(t, x) ==
    IF IsSigned(t) THEN TRUE ELSE ~WLess(x, WPow2(31))

\* C29: in the general affine branch of the integer scale_from, for source
\* and destination ranges of the same representation width and every v of
\* the source range, the product (v - sourceMin) * (MAX - MIN) and the final
\* sum with MIN + 1 are representable in the promoted type they are
\* computed in.
C29_GeneralBranchFits ==
    call.fn \in {"scale_terms", "xint_scale_terms"}
        => /\ WideFits(call.type, SubSeq(call.list, 1, 6))
           /\ BiasedFits(call.type, SubSeq(call.list, 7, 12))

\* C29, where it holds: at 16 bits, and at 32 bits in an unsigned type.
C29_FitsBelowSigned32 ==
    (/\ call.fn \in {"scale_terms", "xint_scale_terms"}
     /\ Bits(call.W.T) < 32 \/ ~IsSigned(call.W.T))
        => /\ WideFits(call.type, SubSeq(call.list, 1, 6))
           /\ BiasedFits(call.type, SubSeq(call.list, 7, 12))
====
